---- MODULE Spec2Model ----
(***************************************************************************)
(* A model of the puresnmp X.690 codec (src/snmp/types.py), of the SNMP    *)
(* GetResponse PDU decoder (src/puresnmp/types.py) and of the GETNEXT walk *)
(* that is driven on top of them.                                          *)
(*                                                                         *)
(* Bytes are naturals 0..255, byte strings are sequences of them.  A       *)
(* Python call is modelled by its outcome: Ok(v) for a returned value and  *)
(* Raise(e) for an exception of class e.                                   *)
(***************************************************************************)
EXTENDS Integers, Sequences, FiniteSets, TLC

VARIABLES
    pc,         \* the codec operation that has been applied ("idle": none yet)
    n,          \* the integer handed to encode_length
    data,       \* the byte string handed to a decoder
    val,        \* the value handed to an encoder; for a decoder, the
                \* sender's description of data
    result,     \* the outcome of the operation named by pc
    state,      \* walk: "Start", "Iterating", "Done", "DoneError"
    base_oid,   \* walk: the OID the walk was started with
    protective, \* walk: whether the optional monotonicity check is built in
    last_oid,   \* walk: the OID of the last request
    requests,   \* walk: the OIDs of the GETNEXT requests issued so far
    responses,  \* walk: the agent's responses received so far
    yielded,    \* walk: the varbinds delivered to the consumer so far
    terminal,   \* walk: the error delivered as the terminal item ("none": none)
    int_remainder, \* Integer.__bytes__: what is left of the value to extract
    int_octets     \* Integer.__bytes__: the octets extracted so far

vars == <<pc, n, data, val, result, state, base_oid, protective, last_oid,
          requests, responses, yielded, terminal, int_remainder,
          int_octets>>

codecVars == <<pc, n, data, val, result>>
walkVars == <<state, base_oid, protective, last_oid, requests, responses,
              yielded, terminal>>
loopVars == <<int_remainder, int_octets>>

----------------------------------------------------------------------------
(* Bounds of the model.                                                    *)

MaxN == 300          \* largest length handed to encode_length
MaxLenInput == 4     \* longest byte string handed to consume_length
MaxBody == 3         \* most octets after the length header of a TLV
MaxRest == 2         \* most sub-identifiers of an OID after the first two
MaxItems == 2        \* most items of a List
MaxVarbinds == 2     \* most varbinds of a response
MaxResponses == 3    \* most exchanges of a walk
MaxValue == 300      \* largest magnitude of an Integer handed to __bytes__
MaxOctets == 4       \* most elements a list of octets can hold

----------------------------------------------------------------------------
(* Python outcomes and helpers.                                            *)

None == [t |-> "None"]

Ok(v) == [kind |-> "ok", val |-> v]

Raise(e) == [kind |-> e, val |-> None]

IsOk(r) == r.kind = "ok"

Min(a, b) == IF a < b THEN a ELSE b

\* data[from:], 0-based as in Python; clamps like a Python slice
SliceFrom(s, from) == SubSeq(s, Min(from, Len(s)) + 1, Len(s))

\* data[:to], 0-based as in Python; clamps like a Python slice
SliceTo(s, to) == SubSeq(s, 1, Min(to, Len(s)))

\* data[from:to]
Slice(s, from, to) == SliceFrom(SliceTo(s, to), from)

RECURSIVE Pow(_, _)
Pow(b, e) == IF e = 0 THEN 1 ELSE b * Pow(b, e - 1)

\* int.from_bytes(bs, 'big')
RECURSIVE int_from_bytes(_)
int_from_bytes(bs) ==
    IF bs = <<>> THEN 0
    ELSE int_from_bytes(SubSeq(bs, 1, Len(bs) - 1)) * 256 + bs[Len(bs)]

\* bytes([...]): every element must be in range(0, 256)
IsByte(b) == b >= 0 /\ b <= 255

\* value & 0b10000000, for a non-negative value
Bit7(value) == ((value \div 128) % 2) * 128

----------------------------------------------------------------------------
(* Length codec.                                                           *)

encode_length(value) ==
    IF Bit7(value) # 0
    THEN Raise("NotImplementedError")
    ELSE Ok(value)

consume_length_long_off_by_one(d) ==
    IF d = <<>> THEN Raise("IndexError")
    ELSE IF d[1] = 255 THEN Raise("NotImplementedError")
    ELSE IF Bit7(d[1]) = 0 THEN Ok([output |-> d[1], data |-> SliceFrom(d, 1)])
    ELSE IF d[1] = 128 THEN Raise("NotImplementedError")
    ELSE LET num_octets == d[1] - 128
         IN Ok([output |-> int_from_bytes(Slice(d, 1, 1 + num_octets)),
                data |-> SliceFrom(d, num_octets)])

consume_length(d) ==
    IF d = <<>> THEN Raise("IndexError")
    ELSE IF d[1] = 255 THEN Raise("NotImplementedError")
    ELSE IF Bit7(d[1]) = 0
    THEN Ok([output |-> int_from_bytes(<<d[1]>>), data |-> SliceFrom(d, 1)])
    ELSE IF d[1] - 128 = 0 THEN Raise("NotImplementedError")
    ELSE LET num_octets == int_from_bytes(<<d[1] - 128>>)
             value_octets == Slice(d, 1, 1 + num_octets)
         IN Ok([output |-> int_from_bytes(value_octets),
                data |-> SliceFrom(d, num_octets + 1)])

----------------------------------------------------------------------------
(* Value types.  A value is a record tagged by its class in field t; the   *)
(* constructors are the classes' __init__ methods.                         *)

Null_HEADER == 5
String_HEADER == 4
List_HEADER == 48
Integer_HEADER == 2
Oid_HEADER == 6
GetResponse_HEADER == 162

Null == [t |-> "Null"]

Integer(value) == [t |-> "Integer", value |-> value]

\* String.__init__: the value is kept as its code points
String(value) ==
    LET length == encode_length(Len(value))
    IN IF ~IsOk(length) THEN length
       ELSE Ok([t |-> "String", value |-> value, length |-> length.val])

List(items) == [t |-> "List", items |-> items]

GetResponse(request_id, value) ==
    [t |-> "GetResponse", request_id |-> request_id, value |-> value]

\* the 7-bit groups of value, least significant first, each but the first
\* with the continuation bit: the loop of encode_large_value before reverse()
RECURSIVE large_value_groups(_)
large_value_groups(value) ==
    IF value = 0 THEN <<>>
    ELSE <<(value % 128) + 128>> \o large_value_groups(value \div 128)

Reverse(s) == [i \in 1..Len(s) |-> s[Len(s) - i + 1]]

encode_large_value(value) ==
    IF value <= 127 THEN <<value>>
    ELSE Reverse(<<value % 128>> \o large_value_groups(value \div 128))

RECURSIVE collapse(_)
collapse(rest) ==
    IF rest = <<>> THEN <<>>
    ELSE encode_large_value(Head(rest)) \o collapse(Tail(rest))

\* Oid.__init__, called with the identifiers as positional arguments
Oid(identifiers) ==
    IF Len(identifiers) < 2 THEN Raise("IndexError")
    ELSE LET first == identifiers[1]
             second == identifiers[2]
             rest == SliceFrom(identifiers, 2)
             first_output == (40 * first) + second
             collapsed == <<first_output>> \o collapse(rest)
             length == encode_length(Len(collapsed))
         IN IF ~IsOk(length) THEN length
            ELSE Ok([t |-> "Oid", identifiers |-> identifiers,
                     collapsed_identifiers |-> collapsed,
                     length |-> length.val])

\* bytes([...]) of a list of integers
bytes_of(ints) ==
    IF \A i \in 1..Len(ints) : IsByte(ints[i]) THEN Ok(ints)
    ELSE Raise("ValueError")

\* str.encode('ascii') and bytes.decode('ascii')
ascii_encode(str) ==
    IF \A i \in 1..Len(str) : str[i] <= 127 THEN Ok(str)
    ELSE Raise("UnicodeEncodeError")

ascii_decode(bs) ==
    IF \A i \in 1..Len(bs) : bs[i] <= 127 THEN Ok(bs)
    ELSE Raise("UnicodeDecodeError")

\* the octets of Integer.__bytes__ for a value > 0, most significant first
RECURSIVE integer_octets(_)
integer_octets(remainder) ==
    IF remainder = 0 THEN <<>>
    ELSE Append(integer_octets(remainder \div 256), remainder % 256)

\* Integer.__bytes__, for a value >= 0
Integer_bytes(v) ==
    LET octets == IF v.value = 0 THEN <<0>> ELSE integer_octets(v.value)
    IN bytes_of(<<Integer_HEADER, Len(octets)>> \o octets)

String_bytes(v) ==
    LET header == bytes_of(<<String_HEADER, v.length>>)
        payload == ascii_encode(v.value)
    IN IF ~IsOk(header) THEN header
       ELSE IF ~IsOk(payload) THEN payload
       ELSE Ok(header.val \o payload.val)

Oid_bytes(v) ==
    bytes_of(<<Oid_HEADER, v.length>> \o v.collapsed_identifiers)

RECURSIVE to_bytes(_)

\* b''.join([bytes(item) for item in items])
RECURSIVE join_bytes(_)
join_bytes(items) ==
    IF items = <<>> THEN Ok(<<>>)
    ELSE LET head == to_bytes(Head(items))
         IN IF ~IsOk(head) THEN head
            ELSE LET tail == join_bytes(Tail(items))
                 IN IF ~IsOk(tail) THEN tail
                    ELSE Ok(head.val \o tail.val)

List_bytes(v) ==
    LET output == join_bytes(v.items)
    IN IF ~IsOk(output) THEN output
       ELSE LET length == encode_length(Len(output.val))
            IN IF ~IsOk(length) THEN length
               ELSE LET header == bytes_of(<<List_HEADER, length.val>>)
                    IN IF ~IsOk(header) THEN header
                       ELSE Ok(header.val \o output.val)

\* bytes(value): the class's __bytes__
to_bytes(v) ==
    CASE v.t = "Null" -> Ok(<<5, 0>>)
      [] v.t = "String" -> String_bytes(v)
      [] v.t = "List" -> List_bytes(v)
      [] v.t = "Integer" -> Integer_bytes(v)
      [] v.t = "Oid" -> Oid_bytes(v)
      [] OTHER -> Raise("NotImplementedError")

\* a == b as the classes' __eq__ methods decide it
RECURSIVE PyEq(_, _)
PyEq(a, b) ==
    IF a.t # b.t THEN FALSE
    ELSE CASE a.t \in {"Null", "None"} -> TRUE
           [] a.t \in {"String", "Integer"} -> a.value = b.value
           [] a.t = "Oid" -> a.collapsed_identifiers = b.collapsed_identifiers
           [] a.t = "List" ->
                /\ Len(a.items) = Len(b.items)
                /\ \A i \in 1..Len(a.items) : PyEq(a.items[i], b.items[i])
           [] a.t = "GetResponse" ->
                /\ PyEq(a.request_id, b.request_id)
                /\ PyEq(a.value, b.value)

----------------------------------------------------------------------------
(* Decoders.                                                               *)

\* the sum of digit * 128**(i+1) over enumerate(reversed(buffer))
RECURSIVE buffer_total(_)
buffer_total(buffer) ==
    IF buffer = <<>> THEN 0
    ELSE buffer[Len(buffer)] * 128
             + 128 * buffer_total(SubSeq(buffer, 1, Len(buffer) - 1))

\* Oid.decode_large_value with current_char = stream[i]: the total, and the
\* position of the stream after the octets it took
RECURSIVE decode_large_value(_, _, _)
decode_large_value(stream, i, buffer) ==
    LET current_char == stream[i]
    IN IF current_char > 127
       THEN IF i = Len(stream) THEN Raise("StopIteration")
            ELSE decode_large_value(stream, i + 1, Append(buffer, current_char - 128))
       ELSE Ok([total |-> current_char + buffer_total(buffer), next |-> i + 1])

\* the loop of Oid.from_bytes over remaining, from position i
RECURSIVE oid_loop(_, _, _)
oid_loop(remaining, i, output) ==
    IF i > Len(remaining) THEN Ok(output)
    ELSE IF remaining[i] > 127
    THEN LET collapsed_value == decode_large_value(remaining, i, <<>>)
         IN IF ~IsOk(collapsed_value) THEN collapsed_value
            ELSE oid_loop(remaining, collapsed_value.val.next,
                          Append(output, collapsed_value.val.total))
    ELSE oid_loop(remaining, i + 1, Append(output, remaining[i]))

Oid_from_bytes(d) ==
    IF d = <<>> THEN Raise("IndexError")
    ELSE IF d[1] # Oid_HEADER THEN Raise("ValueError")
    ELSE LET header == consume_length(SliceFrom(d, 1))
         IN IF ~IsOk(header) THEN header
            ELSE LET identifiers == header.val.data
                 IN IF identifiers = <<>> THEN Raise("IndexError")
                    ELSE LET first == identifiers[1] \div 40
                             second == identifiers[1] % 40
                             output == oid_loop(SliceFrom(identifiers, 1), 1,
                                                <<first, second>>)
                         IN IF ~IsOk(output) THEN output ELSE Oid(output.val)

Null_from_bytes(d) ==
    IF d = <<>> THEN Raise("IndexError")
    ELSE IF d[1] # Null_HEADER THEN Raise("ValueError")
    ELSE IF Len(d) < 2 THEN Raise("IndexError")
    ELSE IF d[2] # 0 THEN Raise("ValueError")
    ELSE Ok(Null)

String_from_bytes(d) ==
    IF d = <<>> THEN Raise("IndexError")
    ELSE IF d[1] # String_HEADER THEN Raise("ValueError")
    ELSE LET header == consume_length(SliceFrom(d, 1))
         IN IF ~IsOk(header) THEN header
            ELSE LET text == ascii_decode(header.val.data)
                 IN IF ~IsOk(text) THEN text ELSE String(text.val)

Integer_from_bytes(d) ==
    IF d = <<>> THEN Raise("IndexError")
    ELSE IF d[1] # Integer_HEADER THEN Raise("ValueError")
    ELSE LET header == consume_length(SliceFrom(d, 1))
         IN IF ~IsOk(header) THEN header
            ELSE Ok(Integer(int_from_bytes(header.val.data)))

RECURSIVE consume(_)
RECURSIVE list_loop(_, _)
RECURSIVE List_from_bytes(_)
RECURSIVE GetResponse_from_bytes(_)

\* the while loop of List.from_bytes: a None from consume ends it
list_loop(content, output) ==
    IF content = <<>> THEN Ok(List(output))
    ELSE LET item == consume(content)
         IN IF ~IsOk(item) THEN item
            ELSE IF item.val.value = None THEN Ok(List(output))
            ELSE list_loop(item.val.data, Append(output, item.val.value))

List_from_bytes(d) ==
    IF d = <<>> THEN Raise("IndexError")
    ELSE IF d[1] # List_HEADER THEN Raise("ValueError")
    ELSE LET header == consume_length(SliceFrom(d, 1))
         IN IF ~IsOk(header) THEN header
            ELSE list_loop(header.val.data, <<>>)

\* obj.value: the classes that have the attribute
HasValue(v) == v.t \in {"Integer", "String", "GetResponse"}

\* the truth value of error_code.value
Truthy(v) ==
    CASE v.t = "Integer" -> v.value # 0
      [] v.t = "String" -> v.value # <<>>
      [] OTHER -> TRUE

\* values.items[0].items[1]
first_varbind_value(values) ==
    IF values.t # "List" THEN Raise("AttributeError")
    ELSE IF values.items = <<>> THEN Raise("IndexError")
    ELSE IF values.items[1].t # "List" THEN Raise("AttributeError")
    ELSE IF Len(values.items[1].items) < 2 THEN Raise("IndexError")
    ELSE Ok(values.items[1].items[2])

GetResponse_from_bytes(d) ==
    IF d = <<>> THEN Raise("IndexError")
    ELSE IF d[1] # GetResponse_HEADER THEN Raise("ValueError")
    ELSE LET header == consume_length(SliceFrom(d, 1))
         IN IF ~IsOk(header) THEN header
            ELSE IF Len(header.val.data) # header.val.output THEN Raise("ValueError")
            ELSE LET request_id == consume(header.val.data)
                 IN IF ~IsOk(request_id) THEN request_id
                    ELSE LET error_code == consume(request_id.val.data)
                         IN IF ~IsOk(error_code) THEN error_code
                            ELSE LET error_index == consume(error_code.val.data)
                                 IN IF ~IsOk(error_index) THEN error_index
                                    ELSE IF ~HasValue(error_code.val.value)
                                    THEN Raise("AttributeError")
                                    ELSE IF Truthy(error_code.val.value)
                                    THEN Raise("SnmpError")
                                    ELSE LET values == consume(error_index.val.data)
                                         IN IF ~IsOk(values) THEN values
                                            ELSE LET value == first_varbind_value(values.val.value)
                                                 IN IF ~IsOk(value) THEN value
                                                    ELSE Ok(GetResponse(request_id.val.value, value.val))

\* the slice of data handed to the class decoder
consume_chunk(d, length) == SliceTo(d, length + 2)

consume(d) ==
    IF d = <<>> THEN Raise("IndexError")
    ELSE LET type == d[1]
             header == consume_length(SliceFrom(d, 1))
         IN IF ~IsOk(header) THEN header
            ELSE LET length == header.val.output
                     remainder == header.val.data
                     chunk == consume_chunk(d, length)
                     value == CASE type = 2 -> Integer_from_bytes(chunk)
                                [] type = 4 -> String_from_bytes(chunk)
                                [] type = 48 -> List_from_bytes(chunk)
                                [] type = 5 -> Ok(None)
                                [] type = 162 -> GetResponse_from_bytes(chunk)
                                [] type = 6 -> Oid_from_bytes(chunk)
                                [] OTHER -> Raise("ValueError")
                 IN IF ~IsOk(value) THEN value
                    ELSE Ok([value |-> value.val, data |-> SliceFrom(remainder, length)])

----------------------------------------------------------------------------
(* PDU layer: GetResponse of src/puresnmp/types.py.  Its input is the      *)
(* payload of the PDU as the stream of its TLVs.                           *)

\* pop_tlv: the first TLV of the stream, decoded, and the rest
pop_tlv(stream) ==
    IF stream = <<>> THEN Raise("IndexError")
    ELSE Ok([value |-> Head(stream), data |-> Tail(stream)])

PduGetResponse(request_id, oid, value) ==
    [t |-> "GetResponse", request_id |-> request_id, oid |-> oid, value |-> value]

\* the varbind the response is built from: values.items[0]
decode_varbind_drops_value(values) ==
    IF values.items = <<>> THEN Raise("IndexError")
    ELSE LET items == values.items[1].items
         IN IF items = <<>> THEN Raise("IndexError")
            ELSE Ok([oid |-> items[1], value |-> None])

decode_varbind(values) ==
    IF values.items = <<>> THEN Raise("IndexError")
    ELSE LET items == values.items[1].items
         IN IF Len(items) = 1 THEN Ok([oid |-> items[1], value |-> None])
            ELSE IF Len(items) < 2 THEN Raise("IndexError")
            ELSE Ok([oid |-> items[1], value |-> items[2]])

GetResponse_decode(stream) ==
    LET request_id == pop_tlv(stream)
    IN IF ~IsOk(request_id) THEN request_id
       ELSE LET error_code == pop_tlv(request_id.val.data)
            IN IF ~IsOk(error_code) THEN error_code
               ELSE LET error_index == pop_tlv(error_code.val.data)
                    IN IF ~IsOk(error_index) THEN error_index
                       ELSE IF error_code.val.value.value # 0 THEN Raise("SnmpError")
                       ELSE LET values == pop_tlv(error_index.val.data)
                            IN IF ~IsOk(values) THEN values
                               ELSE LET varbind == decode_varbind(values.val.value)
                                    IN IF ~IsOk(varbind) THEN varbind
                                       ELSE Ok(PduGetResponse(request_id.val.value,
                                                              varbind.val.oid,
                                                              varbind.val.value))

\* get and set: one exchange, the value of the response's varbind
get(stream) ==
    LET response == GetResponse_decode(stream)
    IN IF ~IsOk(response) THEN response ELSE Ok(response.val.value)

set(stream) ==
    LET response == GetResponse_decode(stream)
    IN IF ~IsOk(response) THEN response ELSE Ok(response.val.value)

----------------------------------------------------------------------------
(* Walk engine.                                                            *)

\* base is a proper prefix of oid, component-wise
HasPrefix(oid, base) ==
    /\ Len(base) < Len(oid)
    /\ SubSeq(oid, 1, Len(base)) = base

\* a is lexicographically >= b
RECURSIVE LexGE(_, _)
LexGE(a, b) ==
    IF b = <<>> THEN TRUE
    ELSE IF a = <<>> THEN FALSE
    ELSE IF Head(a) # Head(b) THEN Head(a) > Head(b)
    ELSE LexGE(Tail(a), Tail(b))

Varbind(oid, value) == [oid |-> oid, value |-> value]

\* what the walk does with the outcome of one exchange: the state it moves
\* to, the varbinds it yields, the requests it issues, the terminal error
walk_step(outcome, base, previous, check) ==
    IF ~IsOk(outcome)
    THEN [state |-> "DoneError", yields |-> <<>>, requests |-> <<>>,
          terminal |-> outcome.kind]
    ELSE LET oid == outcome.val.oid.identifiers
         IN IF ~HasPrefix(oid, base)
            THEN [state |-> "Done", yields |-> <<>>, requests |-> <<>>,
                  terminal |-> "none"]
            ELSE IF check /\ ~LexGE(oid, previous)
            THEN [state |-> "DoneError", yields |-> <<>>, requests |-> <<>>,
                  terminal |-> "SnmpError"]
            ELSE [state |-> "Iterating",
                  yields |-> <<Varbind(oid, outcome.val.value)>>,
                  requests |-> <<oid>>, terminal |-> "none"]

----------------------------------------------------------------------------
(* Inputs.                                                                 *)

\* all sequences over S of length at most k
SeqsUpTo(S, k) == UNION {[1..len -> S] : len \in 0..k}

\* first octets of every length form, and value octets
LengthOctets == {0, 1, 2, 127, 128, 129, 130, 254, 255}

LengthInputs == SeqsUpTo(LengthOctets, MaxLenInput)

\* a TLV as its sender lays it out: tag, length header, then body octets of
\* which the first `declared` are the payload and the rest trails
Tags == {2, 4, 5, 6, 48, 162, 7}

SupportedTags == {2, 4, 5, 6, 48, 162}

Forms == {"short", "long1", "long2"}

BodyOctets == {0, 1, 2, 5, 129}

LengthHeader(form, k) ==
    CASE form = "short" -> <<k>>
      [] form = "long1" -> <<129, k>>
      [] form = "long2" -> <<130, 0, k>>

TlvSenders ==
    {[t |-> "TLV", tag |-> tag, form |-> form, declared |-> k, body |-> body] :
        tag \in Tags, form \in Forms, k \in 0..(MaxBody + 1),
        body \in SeqsUpTo(BodyOctets, MaxBody)}

\* a GetResponse packet as the agent lays it out
VarbindLists == {"one", "two", "none", "garbage", "absent"}

OneVarbind == <<48, 7, 6, 2, 43, 6, 2, 1, 9>>

VarbindListOctets(name) ==
    CASE name = "one" -> <<48, 9>> \o OneVarbind
      [] name = "two" -> <<48, 18>> \o OneVarbind \o OneVarbind
      [] name = "none" -> <<48, 0>>
      [] name = "garbage" -> <<7, 0>>
      [] name = "absent" -> <<>>

PduSenders ==
    {[t |-> "PDU", request_id |-> 7, status |-> st, status_form |-> form,
      index |-> ix, varbinds |-> vb, outer_ok |-> ok] :
        st \in {0, 5}, form \in {"short", "long1"}, ix \in {0, 1},
        vb \in VarbindLists, ok \in BOOLEAN}

IntegerTlv(v, form) == <<2>> \o LengthHeader(form, 1) \o <<v>>

PduPayload(s) ==
    IntegerTlv(s.request_id, "short") \o IntegerTlv(s.status, s.status_form)
        \o IntegerTlv(s.index, "short") \o VarbindListOctets(s.varbinds)

Wire(s) ==
    IF s.t = "TLV"
    THEN <<s.tag>> \o LengthHeader(s.form, s.declared) \o s.body
    ELSE <<162, Len(PduPayload(s)) + (IF s.outer_ok THEN 0 ELSE 1)>>
             \o PduPayload(s)

\* values handed to the encoders
FirstComponents == {0, 1, 2, 3, 6}

SecondComponents == {0, 3, 16, 39, 40, 100}

RestComponents == {1, 127, 128, 8072, 16384}

OidInputs ==
    {<<first, second>> \o rest :
        first \in FirstComponents, second \in SecondComponents,
        rest \in SeqsUpTo(RestComponents, MaxRest)}

OidValues == {Oid(ids).val : ids \in OidInputs}

IntegerValues == {Integer(v) : v \in {0, 1, 127, 128, 255, 256, 65535}}

StringValues == {String(str).val : str \in SeqsUpTo({65, 66}, 2)}

Atoms ==
    {Null, Integer(1), Integer(256), String(<<65>>).val, Oid(<<1, 3>>).val,
     Oid(<<1, 3, 8072>>).val}

FlatLists == {List(items) : items \in SeqsUpTo(Atoms, MaxItems)}

NestedLists == {List(<<inner>>) : inner \in FlatLists}

Values ==
    {Null} \cup IntegerValues \cup StringValues \cup OidValues
        \cup FlatLists \cup NestedLists

\* the agent's responses: the TLVs of a GetResponse PDU
WalkOids == {<<1, 3>>, <<1, 3, 1>>, <<1, 3, 2>>, <<1, 3, 2, 1>>, <<1, 4>>, <<1, 2, 9>>}

BaseOids == {<<1, 3>>, <<1, 3, 2>>}

OidOf(ids) == Oid(ids).val

FullVarbinds == {List(<<OidOf(ids), Integer(9)>>) : ids \in WalkOids}

BareVarbinds == {List(<<OidOf(ids)>>) : ids \in WalkOids}

Response(status, varbinds) ==
    [t |-> "Response", request_id |-> Integer(1), error_code |-> Integer(status),
     error_index |-> Integer(0), values |-> List(varbinds)]

\* every response of at most MaxVarbinds varbinds
Responses ==
    {Response(status, varbinds) :
        status \in {0, 2},
        varbinds \in SeqsUpTo(FullVarbinds \cup BareVarbinds, MaxVarbinds)}

\* the responses a walk is answered with
WalkResponses ==
    {Response(0, <<v>>) : v \in FullVarbinds}
        \cup {Response(0, <<List(<<OidOf(ids)>>)>>) : ids \in {<<1, 3, 1>>, <<1, 4>>}}
        \cup {Response(0, <<v, List(<<OidOf(<<1, 3, 2>>), Integer(9)>>)>>) :
                 v \in FullVarbinds}
        \cup {Response(0, <<>>), Response(2, <<List(<<OidOf(<<1, 3, 1>>), Integer(9)>>)>>)}

TransportFailure == [t |-> "TransportFailure"]

\* the PDU payload of a response, as the stream of its TLVs
StreamOf(r) == <<r.request_id, r.error_code, r.error_index, r.values>>

----------------------------------------------------------------------------
(* The walk is idle in the codec specifications, the codec in the walk's,  *)
(* and the loop of Integer.__bytes__ in all but its own.                    *)

CodecIdle ==
    /\ pc = "idle"
    /\ n = 0
    /\ data = <<>>
    /\ val = None
    /\ result = Ok(None)

WalkIdle ==
    /\ state = "Start"
    /\ base_oid = <<>>
    /\ protective = FALSE
    /\ last_oid = <<>>
    /\ requests = <<>>
    /\ responses = <<>>
    /\ yielded = <<>>
    /\ terminal = "none"

LoopIdle ==
    /\ int_remainder = 0
    /\ int_octets = <<>>

----------------------------------------------------------------------------
(* Specification of the length codec: one input, one call.                 *)

InitLength ==
    /\ WalkIdle
    /\ LoopIdle
    /\ pc = "idle"
    /\ val = None
    /\ result = Ok(None)
    /\ \/ n \in 0..MaxN /\ data = <<>>
       \/ n = 0 /\ data \in LengthInputs

EncodeLength ==
    /\ pc = "idle"
    /\ data = <<>>
    /\ pc' = "encode_length"
    /\ result' = encode_length(n)
    /\ UNCHANGED <<n, data, val>>
    /\ UNCHANGED walkVars
    /\ UNCHANGED loopVars

ConsumeLength ==
    /\ pc = "idle"
    /\ n = 0
    /\ pc' = "consume_length"
    /\ result' = consume_length(data)
    /\ UNCHANGED <<n, data, val>>
    /\ UNCHANGED walkVars
    /\ UNCHANGED loopVars

NextLength == EncodeLength \/ ConsumeLength

SpecLength == InitLength /\ [][NextLength]_vars

----------------------------------------------------------------------------
(* Specification of the decoders: one byte string, one call.               *)

InitDecode ==
    /\ WalkIdle
    /\ LoopIdle
    /\ pc = "idle"
    /\ n = 0
    /\ result = Ok(None)
    /\ val \in TlvSenders \cup PduSenders
    /\ data = Wire(val)

Decoded(name, outcome) ==
    /\ pc' = name
    /\ result' = outcome
    /\ UNCHANGED <<n, data, val>>
    /\ UNCHANGED walkVars
    /\ UNCHANGED loopVars

\* the header a class decoder is given: its own, or one it must refuse
Addressed(header) == val.t = "TLV" /\ val.tag \in {header, 7}

Consume == pc = "idle" /\ Decoded("consume", consume(data))

IntegerFromBytes ==
    /\ pc = "idle" /\ Addressed(Integer_HEADER)
    /\ Decoded("Integer.from_bytes", Integer_from_bytes(data))

StringFromBytes ==
    /\ pc = "idle" /\ Addressed(String_HEADER)
    /\ Decoded("String.from_bytes", String_from_bytes(data))

ListFromBytes ==
    /\ pc = "idle" /\ Addressed(List_HEADER)
    /\ Decoded("List.from_bytes", List_from_bytes(data))

OidFromBytes ==
    /\ pc = "idle" /\ Addressed(Oid_HEADER)
    /\ Decoded("Oid.from_bytes", Oid_from_bytes(data))

NullFromBytes ==
    /\ pc = "idle" /\ Addressed(Null_HEADER)
    /\ Decoded("Null.from_bytes", Null_from_bytes(data))

GetResponseFromBytes ==
    /\ pc = "idle"
    /\ val.t = "PDU" \/ Addressed(GetResponse_HEADER)
    /\ Decoded("GetResponse.from_bytes", GetResponse_from_bytes(data))

NextDecode ==
    \/ Consume
    \/ IntegerFromBytes
    \/ StringFromBytes
    \/ ListFromBytes
    \/ OidFromBytes
    \/ NullFromBytes
    \/ GetResponseFromBytes

SpecDecode == InitDecode /\ [][NextDecode]_vars

----------------------------------------------------------------------------
(* Specification of the encoders: one value, encoded or encoded and        *)
(* decoded again.                                                          *)

InitEncode ==
    /\ WalkIdle
    /\ LoopIdle
    /\ pc = "idle"
    /\ n = 0
    /\ data = <<>>
    /\ result = Ok(None)
    /\ val \in Values

Encode ==
    /\ pc = "idle"
    /\ pc' = "bytes"
    /\ result' = to_bytes(val)
    /\ data' = IF IsOk(result') THEN result'.val ELSE data
    /\ UNCHANGED <<n, val>>
    /\ UNCHANGED walkVars
    /\ UNCHANGED loopVars

Decode ==
    /\ pc = "bytes"
    /\ IsOk(result)
    /\ pc' = "round_trip"
    /\ result' = consume(data)
    /\ UNCHANGED <<n, data, val>>
    /\ UNCHANGED walkVars
    /\ UNCHANGED loopVars

NextEncode == Encode \/ Decode

SpecEncode == InitEncode /\ [][NextEncode]_vars

----------------------------------------------------------------------------
(* Specification of the PDU layer: one response, one call.                 *)

InitPdu ==
    /\ CodecIdle
    /\ LoopIdle
    /\ state = "Start"
    /\ base_oid = <<>>
    /\ protective = FALSE
    /\ last_oid = <<>>
    /\ requests = <<>>
    /\ yielded = <<>>
    /\ terminal = "none"
    /\ \E r \in Responses : responses = <<r>>

Answered(name, outcome) ==
    /\ pc' = name
    /\ result' = outcome
    /\ UNCHANGED <<n, data, val>>
    /\ UNCHANGED walkVars
    /\ UNCHANGED loopVars

Get == pc = "idle" /\ Answered("get", get(StreamOf(responses[1])))

Set == pc = "idle" /\ Answered("set", set(StreamOf(responses[1])))

DecodeResponse ==
    /\ pc = "idle"
    /\ Answered("GetResponse.decode", GetResponse_decode(StreamOf(responses[1])))

NextPdu == Get \/ Set \/ DecodeResponse

SpecPdu == InitPdu /\ [][NextPdu]_vars

----------------------------------------------------------------------------
(* Specification of the walk.                                              *)

InitWalk ==
    /\ CodecIdle
    /\ LoopIdle
    /\ state = "Start"
    /\ base_oid \in BaseOids
    /\ protective \in BOOLEAN
    /\ last_oid = <<>>
    /\ requests = <<>>
    /\ responses = <<>>
    /\ yielded = <<>>
    /\ terminal = "none"

\* Start -> Iterating: the first GETNEXT, for the base OID
WalkStart ==
    /\ state = "Start"
    /\ state' = "Iterating"
    /\ requests' = <<base_oid>>
    /\ last_oid' = base_oid
    /\ UNCHANGED <<base_oid, protective, responses, yielded, terminal>>
    /\ UNCHANGED codecVars
    /\ UNCHANGED loopVars

\* the walk moves on the outcome of the exchange it was waiting for
Exchange(r, outcome) ==
    LET step == walk_step(outcome, base_oid, last_oid, protective)
    IN /\ responses' = Append(responses, r)
       /\ state' = step.state
       /\ yielded' = yielded \o step.yields
       /\ requests' = requests \o step.requests
       /\ last_oid' = IF step.requests = <<>> THEN last_oid ELSE step.requests[1]
       /\ terminal' = step.terminal
       /\ UNCHANGED <<base_oid, protective>>
       /\ UNCHANGED codecVars
       /\ UNCHANGED loopVars

\* the agent answers the pending request
WalkResponse ==
    /\ state = "Iterating"
    /\ Len(responses) < MaxResponses
    /\ \E r \in WalkResponses : Exchange(r, GetResponse_decode(StreamOf(r)))

\* the transport fails on the pending request
WalkTransportFailure ==
    /\ state = "Iterating"
    /\ Len(responses) < MaxResponses
    /\ Exchange(TransportFailure, Raise("TransportFailure"))

NextWalk == WalkStart \/ WalkResponse \/ WalkTransportFailure

SpecWalk == InitWalk /\ [][NextWalk]_vars

----------------------------------------------------------------------------
(* Specification of Integer.__bytes__, one step of its loop at a time: pc  *)
(* is "idle" before the call, "while" at the head of the loop, "return" at *)
(* the return statement, "bytes" once the call has returned and "raised"   *)
(* once it has raised.  remainder & 0b11111111 is remainder % 256 and      *)
(* remainder >> 8 is remainder \div 256 (the floor, as Python's arithmetic *)
(* shift), for negative values too.  A list holds at most MaxOctets        *)
(* elements: appending to a full one raises MemoryError.                   *)

IntegerInputs == {Integer(v) : v \in (0 - MaxValue)..MaxValue}

InitIntegerBytes ==
    /\ WalkIdle
    /\ LoopIdle
    /\ pc = "idle"
    /\ n = 0
    /\ data = <<>>
    /\ result = Ok(None)
    /\ val \in IntegerInputs

\* if self.value == 0: octets = [0]
IntegerBytesOfZero ==
    /\ pc = "idle"
    /\ val.value = 0
    /\ pc' = "return"
    /\ int_octets' = <<0>>
    /\ UNCHANGED <<n, data, val, result, int_remainder>>
    /\ UNCHANGED walkVars

\* else: remainder = self.value; octets = []
IntegerBytesEnterLoop ==
    /\ pc = "idle"
    /\ val.value # 0
    /\ pc' = "while"
    /\ int_remainder' = val.value
    /\ int_octets' = <<>>
    /\ UNCHANGED <<n, data, val, result>>
    /\ UNCHANGED walkVars

\* one pass through the body of "while remainder:"
IntegerBytesIterate ==
    /\ pc = "while"
    /\ int_remainder # 0
    /\ Len(int_octets) < MaxOctets
    /\ LET octet == int_remainder % 256
       IN /\ int_remainder' = int_remainder \div 256
          /\ int_octets' = Append(int_octets, octet)
    /\ UNCHANGED <<pc, n, data, val, result>>
    /\ UNCHANGED walkVars

\* octets.append(octet) on a list that cannot grow
IntegerBytesExhaust ==
    /\ pc = "while"
    /\ int_remainder # 0
    /\ Len(int_octets) = MaxOctets
    /\ pc' = "raised"
    /\ result' = Raise("MemoryError")
    /\ int_remainder' = int_remainder \div 256
    /\ UNCHANGED <<n, data, val, int_octets>>
    /\ UNCHANGED walkVars

\* the exit of "while remainder:", then octets.reverse()
IntegerBytesExitLoop ==
    /\ pc = "while"
    /\ int_remainder = 0
    /\ pc' = "return"
    /\ int_octets' = Reverse(int_octets)
    /\ UNCHANGED <<n, data, val, result, int_remainder>>
    /\ UNCHANGED walkVars

\* return bytes([self.HEADER, len(octets)] + octets)
IntegerBytesReturn ==
    /\ pc = "return"
    /\ result' = bytes_of(<<Integer_HEADER, Len(int_octets)>> \o int_octets)
    /\ pc' = IF IsOk(result') THEN "bytes" ELSE "raised"
    /\ data' = IF IsOk(result') THEN result'.val ELSE data
    /\ UNCHANGED <<n, val, int_remainder, int_octets>>
    /\ UNCHANGED walkVars

NextIntegerBytes ==
    \/ IntegerBytesOfZero
    \/ IntegerBytesEnterLoop
    \/ IntegerBytesIterate
    \/ IntegerBytesExhaust
    \/ IntegerBytesExitLoop
    \/ IntegerBytesReturn

\* the interpreter keeps executing a call that has a next statement
SpecIntegerBytes ==
    /\ InitIntegerBytes
    /\ [][NextIntegerBytes]_vars
    /\ WF_vars(NextIntegerBytes)

----------------------------------------------------------------------------
(* C7: encode_length.                                                      *)

\* the minimal big-endian octets of a positive integer
RECURSIVE MinimalOctets(_)
MinimalOctets(x) ==
    IF x < 256 THEN <<x>> ELSE Append(MinimalOctets(x \div 256), x % 256)

\* the X.690 length octets of x
LengthOctetsOf(x) ==
    IF x < 128 THEN <<x>>
    ELSE <<128 + Len(MinimalOctets(x))>> \o MinimalOctets(x)

\* the octets a caller writes for an encode_length result: bytes([HEADER, length])
WrittenLength(r) == <<r.val>>

\* C7: encode_length(n) is the single octet n for n < 128 and the long form
\* (0x80 | k, then the k minimal big-endian octets of n) for n >= 128; it never
\* returns n itself for n >= 128.
C7_EncodeLengthLongForm ==
    pc = "encode_length" =>
        /\ IsOk(result)
        /\ WrittenLength(result) = LengthOctetsOf(n)

----------------------------------------------------------------------------
(* C8: consume_length.                                                     *)

\* sum of d[i] * 256^(hi - i) for i in lo..hi, 1-based
RECURSIVE BigEndianAt(_, _, _)
BigEndianAt(d, lo, hi) ==
    IF lo > hi THEN 0
    ELSE d[lo] * Pow(256, hi - lo) + BigEndianAt(d, lo + 1, hi)

\* C8: consume_length returns a short-form first octet as the length with the
\* bytes after it; for a first octet 0x81..0xFE it returns the big-endian value
\* of the following N = octet & 0x7F octets (of those present, when the input is
\* cut short) with the bytes after those N octets; for 0xFF and 0x80 it fails.
C8_ConsumeLength ==
    (pc = "consume_length" /\ data # <<>>) =>
        LET first == data[1]
            N == first % 128
            hi == Min(1 + N, Len(data))
        IN /\ first < 128 =>
                /\ IsOk(result)
                /\ result.val.output = first
                /\ result.val.data = Tail(data)
           /\ (first >= 129 /\ first <= 254) =>
                /\ IsOk(result)
                /\ result.val.output = BigEndianAt(data, 2, hi)
                /\ Len(result.val.data) = Len(data) - hi
                /\ \A i \in 1..Len(result.val.data) :
                       result.val.data[i] = data[hi + i]
           /\ first \in {128, 255} => ~IsOk(result)

\* a long-form length of two octets has been read and bytes are left after it
C8_Witness ==
    /\ pc = "consume_length"
    /\ Len(data) = 4
    /\ data[1] = 130
    /\ IsOk(result)
    /\ result.val.output = 256 * data[2] + data[3]
    /\ result.val.output > 255
    /\ result.val.data = <<data[4]>>

----------------------------------------------------------------------------
(* C10: consume on a well-formed TLV followed by trailing bytes.           *)

\* the payload and the trailing bytes of a sender's TLV
PayloadOf(s) == SubSeq(s.body, 1, s.declared)

TrailingOf(s) == SubSeq(s.body, s.declared + 1, Len(s.body))

\* the class decoder of a tag
ClassDecode(tag, d) ==
    CASE tag = 2 -> Integer_from_bytes(d)
      [] tag = 4 -> String_from_bytes(d)
      [] tag = 48 -> List_from_bytes(d)
      [] tag = 6 -> Oid_from_bytes(d)
      [] tag = 162 -> GetResponse_from_bytes(d)
      [] OTHER -> Raise("ValueError")

\* the same TLV alone, its length in short form
Canonical(s) == <<s.tag, s.declared>> \o PayloadOf(s)

\* the payload is one the tag's class can hold
WellFormed(s) ==
    /\ s.declared <= Len(s.body)
    /\ CASE s.tag = 5 -> s.declared = 0
         [] s.tag = 2 -> s.declared >= 1
         [] s.tag = 4 -> \A i \in 1..s.declared : s.body[i] <= 127
         [] OTHER -> IsOk(ClassDecode(s.tag, Canonical(s)))

\* C10: for every well-formed TLV of a supported type, in short or long form,
\* followed by trailing bytes, consume returns the value of the complete
\* declared payload and exactly the trailing bytes; an unsupported type octet
\* fails with the unknown-type error.
C10_ConsumeWholePayload ==
    (pc = "consume" /\ val.t = "TLV" /\ val.declared <= Len(val.body)) =>
        /\ val.tag \notin SupportedTags => result.kind = "ValueError"
        /\ (val.tag \in SupportedTags /\ WellFormed(val)) =>
              /\ IsOk(result)
              /\ result.val.data = TrailingOf(val)
              /\ CASE val.tag = 5 -> result.val.value.t \in {"None", "Null"}
                   [] val.tag = 2 ->
                        /\ result.val.value.t = "Integer"
                        /\ result.val.value.value
                               = BigEndianAt(val.body, 1, val.declared)
                   [] val.tag = 4 ->
                        /\ result.val.value.t = "String"
                        /\ result.val.value.value = PayloadOf(val)
                   [] OTHER ->
                        PyEq(result.val.value,
                             ClassDecode(val.tag, Canonical(val)).val)

\* the same statement for TLVs whose length is in short form
C10_ShortFormOnly ==
    (val.t = "TLV" /\ val.form = "short") => C10_ConsumeWholePayload

----------------------------------------------------------------------------
(* C9: a declared length that differs from the bytes present.              *)

ClassDecoders ==
    {"Integer.from_bytes", "String.from_bytes", "List.from_bytes",
     "Oid.from_bytes", "GetResponse.from_bytes"}

HeaderOf(name) ==
    CASE name = "Integer.from_bytes" -> Integer_HEADER
      [] name = "String.from_bytes" -> String_HEADER
      [] name = "List.from_bytes" -> List_HEADER
      [] name = "Oid.from_bytes" -> Oid_HEADER
      [] name = "GetResponse.from_bytes" -> GetResponse_HEADER

\* the sender declared a length other than the number of bytes that follow
LengthMismatch ==
    IF val.t = "TLV" THEN val.declared # Len(val.body) ELSE ~val.outer_ok

\* C9: every TLV decoder fails when the declared length differs from the
\* number of payload bytes present.
C9_LengthMismatchFails ==
    (/\ pc \in ClassDecoders
     /\ val.t = "TLV" => val.tag = HeaderOf(pc)
     /\ LengthMismatch)
        => ~IsOk(result)

\* the same statement for GetResponse.from_bytes alone
C9_GetResponseOnly == pc = "GetResponse.from_bytes" => C9_LengthMismatchFails

----------------------------------------------------------------------------
(* C3: a non-zero error-status.                                            *)

\* C3: decoding a GetResponse whose error-status is non-zero never produces a
\* GetResponse; with the packet's length right it raises SnmpError, whatever
\* follows the error-index.
C3_ErrorStatusRaises ==
    (pc = "GetResponse.from_bytes" /\ val.t = "PDU" /\ val.status # 0) =>
        /\ ~IsOk(result)
        /\ val.outer_ok => result.kind = "SnmpError"

\* the same statement for GetResponse.decode of the PDU layer, and for get and
\* set on top of it
C3_PduLayerRaises ==
    (/\ pc \in {"get", "set", "GetResponse.decode"}
     /\ responses[1].error_code.value # 0)
        => result.kind = "SnmpError"

\* the same statement for an error-status whose length is in short form
C3_ShortFormOnly ==
    (val.t = "PDU" /\ val.status_form = "short") => C3_ErrorStatusRaises

----------------------------------------------------------------------------
(* C5: the round trip of an object identifier.                             *)

\* C5: for every sequence of non-negative integers of length at least 2,
\* whatever its first two components, decoding the encoded identifier returns
\* the same component list.
C5_OidRoundTrip ==
    (pc = "round_trip" /\ val.t = "Oid") =>
        /\ IsOk(result)
        /\ result.val.value.t = "Oid"
        /\ result.val.value.identifiers = val.identifiers
        /\ result.val.data = <<>>

\* the same statement for identifiers whose first octet 40*first + second is
\* unambiguous: second below 40 and the sum at most 255
C5_UnambiguousFirstOctet ==
    (/\ val.t = "Oid"
     /\ val.identifiers[2] < 40
     /\ 40 * val.identifiers[1] + val.identifiers[2] <= 255)
        => C5_OidRoundTrip

----------------------------------------------------------------------------
(* C6: the round trip of a value.                                          *)

\* C6: for every valid value v, a List with a Null element included,
\* decoding the bytes of v returns a value equal to v.
C6_ValueRoundTrip ==
    pc = "round_trip" =>
        /\ IsOk(result)
        /\ PyEq(result.val.value, val)

\* whether a value is, or holds, a Null
RECURSIVE HoldsNull(_)
HoldsNull(v) ==
    \/ v.t = "Null"
    \/ /\ v.t = "List"
       /\ \E i \in 1..Len(v.items) : HoldsNull(v.items[i])

\* the same statement for values that hold no Null
C6_WithoutNull == ~HoldsNull(val) => C6_ValueRoundTrip

----------------------------------------------------------------------------
(* The responses as the claims about the PDU layer and the walk see them.  *)

IsResponse(r) == r.t = "Response"

VarbindCount(r) == Len(r.values.items)

\* the first varbind of a response: for a well-formed response, its varbind
LeadingVarbind(r) ==
    LET items == r.values.items[1].items
    IN Varbind(items[1].identifiers, IF Len(items) > 1 THEN items[2] ELSE None)

\* the response decodes to a varbind
Answers(r) == IsResponse(r) /\ r.error_code.value = 0 /\ VarbindCount(r) > 0

\* an error occurs on the exchange: the transport fails, the agent reports an
\* error status, or the response does not hold exactly one varbind
IsError(r) ==
    \/ ~IsResponse(r)
    \/ r.error_code.value # 0
    \/ VarbindCount(r) # 1

----------------------------------------------------------------------------
(* C2: exactly one varbind.                                                *)

\* C2: a response whose varbind list does not hold exactly one varbind makes
\* get, set and GetResponse decoding fail with an SNMP error.
C2_OneVarbindOrSnmpError ==
    (pc \in {"get", "set", "GetResponse.decode"} /\ VarbindCount(responses[1]) # 1)
        => result.kind = "SnmpError"

\* C2: a response whose varbind list does not hold exactly one varbind never
\* makes get, set or GetResponse decoding return: neither the first varbind of
\* a longer list nor a value of None.
C2_OneVarbindOrFailure ==
    (pc \in {"get", "set", "GetResponse.decode"} /\ VarbindCount(responses[1]) # 1)
        => ~IsOk(result)

----------------------------------------------------------------------------
(* C1: the walk stops at the end of the subtree.                           *)

\* the response at position i answers with an OID under the base OID
InScopeAt(i) ==
    /\ Answers(responses[i])
    /\ HasPrefix(LeadingVarbind(responses[i]).oid, base_oid)

\* the response at position i answers with an OID outside the base OID
OutOfScopeAt(i) ==
    /\ Answers(responses[i])
    /\ ~HasPrefix(LeadingVarbind(responses[i]).oid, base_oid)

----------------------------------------------------------------------------
(* C4: errors during a walk.                                               *)

\* C4: an error on an exchange (agent error status, zero or several
\* varbinds, transport failure) ends the walk in Done(Error) with the error as
\* terminal item; it is the last exchange, nothing is yielded for it, and the
\* varbinds yielded before it stay as they were delivered.
C4_ErrorEndsWalk ==
    \A i \in 1..Len(responses) :
        IsError(responses[i]) =>
            /\ state = "DoneError"
            /\ terminal # "none"
            /\ i = Len(responses)
            /\ Len(requests) = i
            /\ Len(yielded) = i - 1
            /\ \A j \in 1..(i - 1) : yielded[j] = LeadingVarbind(responses[j])

\* the same statement for the errors other than a list of several varbinds
C4_ExceptSeveralVarbinds ==
    (\A i \in 1..Len(responses) :
        IsResponse(responses[i]) => VarbindCount(responses[i]) <= 1)
        => C4_ErrorEndsWalk

----------------------------------------------------------------------------
(* C11: Integer.__bytes__ terminates.                                      *)

\* C11: encoding an Integer terminates for every integer value, negative
\* values included: the loop that shifts the remainder right by 8 bits
\* reaches its exit condition, and the call returns the encoding.
C11_IntegerBytesTerminates == <>(pc = "bytes")

\* C11, for the values it holds for: the call returns for every value >= 0
C11_NonNegativeTerminates == [](val.value >= 0 => <>(pc = "bytes"))

\* C11, why it fails: an arithmetic shift keeps a negative remainder
\* negative, so the loop's condition stays true whatever the list can hold
C11_ShiftKeepsSign == [][int_remainder < 0 => int_remainder' < 0]_vars

\* C11, why it fails: a call with a negative value is in the loop with a
\* negative remainder until append fails; it never reaches the return
C11_NegativeNeverExits ==
    val.value < 0 =>
        /\ pc \in {"idle", "while", "raised"}
        /\ pc = "while" => int_remainder < 0
        /\ pc = "raised" => result = Raise("MemoryError")

\* C11, the loop run to its exit computes Integer_bytes, and a list of
\* MaxOctets elements is enough for every value >= 0 of the model
C11_LoopComputesBytes ==
    /\ pc = "bytes" => val.value >= 0 /\ result = Integer_bytes(val)
    /\ val.value >= 0 => pc # "raised"

\* C11: a negative value whose loop has run until the list is full
C11_NegativeExhausts ==
    /\ val.value < 0
    /\ pc = "raised"
    /\ int_remainder = 0 - 1
    /\ Len(int_octets) = MaxOctets

====
